---- MODULE Spec2Model ----
(***************************************************************************)
(* Model of flash_g_v2.py: the paragraph selector, the flashcard           *)
(* generator, the two exporters and the FlashcardApp handlers.             *)
(* A Python str is a sequence of one-character strings.                    *)
(***************************************************************************)
EXTENDS Integers, Sequences, FiniteSets, TLC

VARIABLES
    args,        \* arguments of the module-level function under call
    ret,         \* its outcome, NoRet before the call
    flashcards,  \* FlashcardApp.flashcards
    theme,       \* FlashcardApp.theme
    status,      \* FlashcardApp.status_var
    output_box,  \* content of FlashcardApp.output_box
    clipboard,   \* what pyperclip holds
    files,       \* files written by the exporters, path -> document
    trace,       \* calls made by the handler that ran last, in order
    running,     \* the Tk main loop is alive
    lastLoad     \* the text and model behaviour of the last load that generated

vars == <<args, ret, flashcards, theme, status, output_box, clipboard, files,
          trace, running, lastLoad>>

appVars == <<flashcards, theme, status, output_box, clipboard, files, trace,
             running, lastLoad>>

----------------------------------------------------------------------------
(* Bounds *)

MaxTextLen == 4      \* characters of a text given to get_relevant_paragraphs
MaxBound == 2        \* min_len and max_len range over 0..MaxBound + 1
MaxLimit == 3        \* limit ranges over -MaxNegLimit..MaxLimit
MaxNegLimit == 2
MaxQuestions == 2    \* questions the model returns for one paragraph
MaxAppQuestions == 1 \* questions per paragraph while the application runs
MaxCards == 24       \* flashcards held when the exporters are called
MaxLines == 2        \* lines of a text given to generate_flashcards

----------------------------------------------------------------------------
(* Python str and list primitives *)

NL == "\n"
SP == " "
TAB == "\t"

\* the characters str.strip() removes that the model's texts can contain
Whitespace == {SP, TAB, NL}

Min(a, b) == IF a <= b THEN a ELSE b
Max(a, b) == IF a >= b THEN a ELSE b

Rep(c, n) == [i \in 1..n |-> c]

Range(s) == {s[i] : i \in 1..Len(s)}

\* first position from i on that holds no whitespace, Len(s) + 1 if none
RECURSIVE lstrip_at(_, _)
lstrip_at(s, i) ==
    IF i > Len(s) \/ s[i] \notin Whitespace THEN i ELSE lstrip_at(s, i + 1)

\* last position up to i that holds no whitespace, 0 if none
RECURSIVE rstrip_at(_, _)
rstrip_at(s, i) ==
    IF i < 1 \/ s[i] \notin Whitespace THEN i ELSE rstrip_at(s, i - 1)

\* str.strip()
strip(s) == SubSeq(s, lstrip_at(s, 1), rstrip_at(s, Len(s)))

\* str.split("\n"): one piece more than there are newlines
split(s) ==
    LET nls == {i \in 1..Len(s) : s[i] = NL}
        n == Cardinality(nls)
        pos(k) == IF k = 0 THEN 0
                  ELSE IF k = n + 1 THEN Len(s) + 1
                  ELSE CHOOSE i \in nls : Cardinality({j \in nls : j < i}) = k - 1
    IN  [k \in 1..(n + 1) |-> SubSeq(s, pos(k - 1) + 1, pos(k) - 1)]

\* xs[:limit], a negative limit counting from the end
SliceTo(xs, limit) ==
    IF limit >= 0 THEN SubSeq(xs, 1, Min(limit, Len(xs)))
    ELSE SubSeq(xs, 1, Max(0, Len(xs) + limit))

----------------------------------------------------------------------------
(* get_relevant_paragraphs *)

\* the defaults of get_relevant_paragraphs and of generate_flashcards
DefaultMinLen == 80
DefaultMaxLen == 400
DefaultMaxFlashcards == 25

get_relevant_paragraphs_long(text, min_len, max_len, limit) ==
    LET pieces == split(text)
        Keep(p) == min_len <= Len(strip(p)) /\ Len(strip(p)) <= max_len
        kept == SelectSeq(pieces, Keep)
    IN  [i \in 1..Min(Len(kept), Max(limit, 0) + 1) |-> strip(kept[i])]

get_relevant_paragraphs_raw(text, min_len, max_len, limit) ==
    LET pieces == split(text)
        Keep(p) == min_len <= Len(p) /\ Len(p) <= max_len
        kept == SelectSeq(pieces, Keep)
    IN  SliceTo([i \in 1..Len(kept) |-> strip(kept[i])], limit)

get_relevant_paragraphs(text, min_len, max_len, limit) ==
    LET pieces == split(text)
        Keep(p) == min_len <= Len(strip(p)) /\ Len(strip(p)) <= max_len
        kept == SelectSeq(pieces, Keep)
    IN  SliceTo([i \in 1..Len(kept) |-> strip(kept[i])], limit)

----------------------------------------------------------------------------
(* Values shared by the specifications *)

NoRet == [status |-> "none"]
NoArgs == [fn |-> "none"]
NoLoad == [loaded |-> FALSE]

LIGHT_THEME == "light"
DARK_THEME == "dark"

\* FlashcardApp.__init__ and build_layout
AppInit ==
    /\ flashcards = <<>>
    /\ theme = LIGHT_THEME
    /\ status = "Ready"
    /\ output_box = [kind |-> "empty"]
    /\ clipboard = [kind |-> "empty"]
    /\ files = <<>>
    /\ trace = <<>>
    /\ running = TRUE
    /\ lastLoad = NoLoad

----------------------------------------------------------------------------
(* Selection called on its own: every short text, every bounds *)

SelChars == {"a", SP, NL}

RECURSIVE SeqsUpTo(_, _)
SeqsUpTo(S, n) ==
    IF n = 0 THEN {<<>>}
    ELSE LET shorter == SeqsUpTo(S, n - 1)
         IN  shorter \cup {Append(s, c) : s \in {t \in shorter : Len(t) = n - 1}, c \in S}

SelInit ==
    /\ AppInit
    /\ ret = NoRet
    /\ \E text \in SeqsUpTo(SelChars, MaxTextLen),
          min_len \in 0..MaxBound, max_len \in 0..(MaxBound + 1),
          limit \in (0 - MaxNegLimit)..MaxLimit :
           args = [fn |-> "get_relevant_paragraphs", text |-> text,
                   min_len |-> min_len, max_len |-> max_len, limit |-> limit]

CallGetRelevantParagraphs ==
    /\ args.fn = "get_relevant_paragraphs"
    /\ ret = NoRet
    /\ ret' = [status |-> "returned",
               value |-> get_relevant_paragraphs(args.text, args.min_len,
                                                 args.max_len, args.limit)]
    /\ UNCHANGED <<args, appVars>>

SelNext == CallGetRelevantParagraphs

SpecSel == SelInit /\ [][SelNext]_vars

----------------------------------------------------------------------------
(* generate_questions and generate_flashcards *)

Questions == {"q1", "q2"}

\* What the question model does for one paragraph: it raises, or it returns
\* a list of decoded questions.
Raises == [raised |-> TRUE, questions |-> <<>>]
Returns(qs) == [raised |-> FALSE, questions |-> qs]
QuestionLists ==
    {[k \in 1..n |-> IF (k + r) % 2 = 0 THEN "q1" ELSE "q2"] :
        n \in 0..MaxQuestions, r \in 0..1}
Outcomes == {Raises} \cup {Returns(qs) : qs \in QuestionLists}

\* generate_questions(para) under the model behaviour o
generate_questions(para, o) == o

Card_swapped(q, para) == <<para, q>>

\* the tuple appended for one question
Card(q, para) == <<q, para>>

Extend_front(cards, more) == more \o cards

\* flashcards.append, once per question
Extend(cards, more) == cards \o more

Caught_never(o) == FALSE

\* except Exception
Caught(o) == o.raised

\* The loop of generate_flashcards from paragraph i on.  acc.origin is not
\* program state: it records, for each card, the paragraph and the question
\* position it came from.
RECURSIVE gen_loop(_, _, _, _)
gen_loop(paras, outcomes, i, acc) ==
    IF i > Len(paras) THEN acc
    ELSE LET o == generate_questions(paras[i], outcomes[i])
             n == Len(o.questions)
         IN  IF o.raised
             THEN IF Caught(o)
                  THEN gen_loop(paras, outcomes, i + 1,
                                [acc EXCEPT !.printed = Append(@, i)])
                  ELSE [acc EXCEPT !.status = "raised"]
             ELSE gen_loop(paras, outcomes, i + 1,
                           [acc EXCEPT
                              !.value = Extend(@, [k \in 1..n |-> Card(o.questions[k], paras[i])]),
                              !.origin = Extend(@, [k \in 1..n |-> <<i, k>>])])

generate_flashcards(text, max_flashcards, outcomes) ==
    gen_loop(get_relevant_paragraphs(text, DefaultMinLen, DefaultMaxLen, max_flashcards),
             outcomes, 1,
             [status |-> "returned", value |-> <<>>, origin |-> <<>>, printed |-> <<>>])

\* the paragraphs generate_flashcards selects
Selected(text, max_flashcards) ==
    get_relevant_paragraphs(text, DefaultMinLen, DefaultMaxLen, max_flashcards)

----------------------------------------------------------------------------
(* Generation called on its own: texts of lines around the length bounds *)

Line(pad, c, n) == Rep(SP, pad) \o Rep(c, n) \o Rep(SP, pad)

GenLines ==
    { Line(0, "a", DefaultMinLen),        \* kept, at the lower bound
      Line(1, "b", DefaultMaxLen),        \* kept once trimmed, at the upper bound
      Line(1, "a", DefaultMinLen - 1),    \* too short once trimmed
      Line(0, "b", DefaultMaxLen + 1),    \* too long
      <<>> }

RECURSIVE Join(_)
Join(lines) ==
    IF Len(lines) = 0 THEN <<>>
    ELSE IF Len(lines) = 1 THEN lines[1]
    ELSE lines[1] \o <<NL>> \o Join(Tail(lines))

GenTexts == {Join(ls) : ls \in SeqsUpTo(GenLines, MaxLines)}

GenLimits == ((0 - 1)..MaxLines) \cup {DefaultMaxFlashcards}

GenInit ==
    /\ AppInit
    /\ ret = NoRet
    /\ \E text \in GenTexts, max_flashcards \in GenLimits :
           args = [fn |-> "generate_flashcards", text |-> text,
                   max_flashcards |-> max_flashcards]

CallGenerateFlashcards ==
    /\ args.fn = "generate_flashcards"
    /\ ret = NoRet
    /\ \E outcomes \in [1..Len(Selected(args.text, args.max_flashcards)) -> Outcomes] :
           ret' = generate_flashcards(args.text, args.max_flashcards, outcomes)
                     @@ [outcomes |-> outcomes]
    /\ UNCHANGED <<args, appVars>>

GenNext == CallGenerateFlashcards

SpecGen == GenInit /\ [][GenNext]_vars

----------------------------------------------------------------------------
(* export_to_word and export_to_pdf *)

\* datetime.datetime.now(), formatted
Clock == {"2026-01-01 10:00"}

\* the paragraphs written for flashcard i
WordCard(i, card) ==
    << [style |-> "Heading2", text |-> <<"Flashcard #", i>>],
       [style |-> "Normal", text |-> <<"Q: ", card[1]>>],
       [style |-> "Normal", text |-> <<"A: ", card[2]>>],
       [style |-> "Normal", text |-> <<"">>] >>

RECURSIVE word_loop(_, _, _)
word_loop(cards, i, blocks) ==
    IF i > Len(cards) THEN blocks
    ELSE word_loop(cards, i + 1, blocks \o WordCard(i, cards[i]))

export_to_word_unstamped(cards, now) ==
    [format |-> "docx",
     blocks |-> word_loop(cards, 1,
                    << [style |-> "Heading1", text |-> <<"Flashcards">>] >>)]

export_to_word(cards, now) ==
    [format |-> "docx",
     blocks |-> word_loop(cards, 1,
                    << [style |-> "Heading1", text |-> <<"Flashcards">>],
                       [style |-> "Normal", text |-> <<"Generated on ", now, NL>>] >>)]

\* reportlab.lib.pagesizes.letter, in points
PageHeight == 792

TopMargin == 50
BreakBelow == 100
LeftMargin == 50
TitleStep == 25
StampStep == 30
LineStep == 15
CardStep == 25

Draw(page, y, font, text) ==
    [page |-> page, x |-> LeftMargin, y |-> y, font |-> font, text |-> text]

NeedsPage_never(y) == FALSE

\* if y < 100
NeedsPage(y) == y < BreakBelow

\* The loop of export_to_pdf from flashcard i on: y is the cursor, page the
\* page being drawn, ops the drawString calls so far.
RECURSIVE pdf_loop(_, _, _, _, _)
pdf_loop(cards, i, y, page, ops) ==
    IF i > Len(cards) THEN [format |-> "pdf", pages |-> page, ops |-> ops]
    ELSE LET brk == NeedsPage(y)
             pg == IF brk THEN page + 1 ELSE page
             y0 == IF brk THEN PageHeight - TopMargin ELSE y
             y1 == y0 - LineStep
             y2 == y1 - LineStep
         IN  pdf_loop(cards, i + 1, y2 - CardStep, pg,
                      ops \o << Draw(pg, y0, "Helvetica-Bold 11", <<"Flashcard #", i>>),
                                Draw(pg, y1, "Helvetica 10", <<"Q: ", cards[i][1]>>),
                                Draw(pg, y2, "Helvetica 10", <<"A: ", cards[i][2]>>) >>)

export_to_pdf(cards, now) ==
    LET y == PageHeight - TopMargin
    IN  pdf_loop(cards, 1, y - TitleStep - StampStep, 1,
                 << Draw(1, y, "Helvetica-Bold 14", <<"Flashcards">>),
                    Draw(1, y - TitleStep, "Helvetica 10", <<"Generated on ", now>>) >>)

----------------------------------------------------------------------------
(* extract_text *)

DotTxt == <<".", "t", "x", "t">>
DotDocx == <<".", "d", "o", "c", "x">>
DotPdf == <<".", "p", "d", "f">>

\* str.endswith
endswith(s, suffix) ==
    /\ Len(s) >= Len(suffix)
    /\ SubSeq(s, Len(s) - Len(suffix) + 1, Len(s)) = suffix

\* The files the user can pick.  A file that cannot be opened or decoded has
\* readable = FALSE.
Readable(parts) == [readable |-> TRUE, parts |-> parts]
Unreadable == [readable |-> FALSE, parts |-> <<>>]

PathTxt == <<"n">> \o DotTxt
PathDocx == <<"n">> \o DotDocx
PathPdf == <<"n">> \o DotPdf
PathMd == <<"n", ".", "m", "d">>
PathUpper == <<"n", ".", "T", "X", "T">>
PathGone == <<"g">> \o DotTxt
PathBad == <<"g">> \o DotPdf
Cancelled == <<>>

OpenPaths == {PathTxt, PathDocx, PathPdf, PathMd, PathUpper, PathGone, PathBad}

Disk(path) ==
    CASE path = PathTxt ->
             Readable(<<Join(<<Line(1, "a", DefaultMinLen), Line(0, "b", DefaultMinLen - 1)>>)>>)
      [] path = PathDocx ->
             Readable(<<Line(0, "b", DefaultMinLen), <<SP>>, Line(0, "a", DefaultMinLen - 1)>>)
      [] path = PathPdf ->
             Readable(<<Line(0, "a", DefaultMinLen - 1) \o <<NL>>, Line(0, "b", 1) \o <<NL>>>>)
      [] path = PathMd -> Readable(<<Line(0, "a", DefaultMinLen)>>)
      [] path = PathUpper -> Readable(<<Line(0, "a", DefaultMinLen)>>)
      [] OTHER -> Unreadable

RECURSIVE Concat(_)
Concat(parts) == IF Len(parts) = 0 THEN <<>> ELSE Head(parts) \o Concat(Tail(parts))

Extracted(text) == [raised |-> FALSE, error |-> "", text |-> text]
OpenFailed == [raised |-> TRUE, error |-> "cannot open or decode", text |-> <<>>]
Unsupported == [raised |-> TRUE, error |-> "Unsupported file type.", text |-> <<>>]

\* "\n".join(p.text for p in doc.paragraphs if p.text.strip())
extract_text_from_docx(path) ==
    LET NotBlank(p) == strip(p) # <<>>
    IN  IF Disk(path).readable
        THEN Extracted(Join(SelectSeq(Disk(path).parts, NotBlank)))
        ELSE Unsupported

\* the pages' texts, concatenated in page order
extract_text_from_pdf(path) ==
    IF Disk(path).readable THEN Extracted(Concat(Disk(path).parts)) ELSE OpenFailed

extract_text_any(path) ==
    IF Disk(path).readable THEN Extracted(Concat(Disk(path).parts)) ELSE OpenFailed

extract_text(path) ==
    IF endswith(path, DotTxt)
    THEN IF Disk(path).readable THEN Extracted(Disk(path).parts[1]) ELSE OpenFailed
    ELSE IF endswith(path, DotDocx) THEN extract_text_from_docx(path)
    ELSE IF endswith(path, DotPdf) THEN extract_text_from_pdf(path)
    ELSE Unsupported

----------------------------------------------------------------------------
(* FlashcardApp handlers *)

\* what simpledialog.askstring returns: None when the dialog is dismissed
None == [given |-> FALSE, text |-> <<>>]
Typed(text) == [given |-> TRUE, text |-> text]

FormatChoices ==
    { None,
      Typed(<<SP, "P", "D", "F", SP>>),
      Typed(<<"w", "o", "r", "d">>),
      Typed(<<"d", "o", "c">>),
      Typed(<<>>) }

\* str.lower() on the letters the choices use
lower_char(c) ==
    CASE c = "P" -> "p" [] c = "D" -> "d" [] c = "F" -> "f" [] c = "W" -> "w"
      [] OTHER -> c

lower(s) == [i \in 1..Len(s) |-> lower_char(s[i])]

FormatPdf == <<"p", "d", "f">>
FormatWord == <<"w", "o", "r", "d">>

SavePath == <<"o", "u", "t">>
SavePaths == {Cancelled, SavePath}

\* what the question model does while the application runs
AppOutcomes == {Raises} \cup {Returns(Rep("q1", n)) : n \in 0..MaxAppQuestions}

\* display_flashcards
display_flashcards(cards) ==
    IF cards = <<>> THEN [kind |-> "none", cards |-> <<>>]
    ELSE [kind |-> "cards", cards |-> cards]

Loaded_appended(held, generated) == held \o generated

\* self.flashcards = generate_flashcards(text)
Loaded(held, generated) == generated

LoadFile(file_path, outcomes) ==
    /\ running
    /\ args' = [fn |-> "load_file", file_path |-> file_path]
    /\ IF file_path = Cancelled
       THEN /\ trace' = <<"askopenfilename">>
            /\ UNCHANGED <<flashcards, status, output_box, lastLoad>>
       ELSE LET got == extract_text(file_path)
                gen == generate_flashcards(got.text, DefaultMaxFlashcards, outcomes)
            IN  IF got.raised
                THEN /\ trace' = <<"askopenfilename", "set_status", "extract_text",
                                   "except", "set_status", "showerror">>
                     /\ status' = "Error occurred."
                     /\ UNCHANGED <<flashcards, output_box, lastLoad>>
                ELSE IF gen.status = "raised"
                THEN /\ trace' = <<"askopenfilename", "set_status", "extract_text",
                                   "generate_flashcards", "except", "set_status",
                                   "showerror">>
                     /\ status' = "Error occurred."
                     /\ output_box' = [kind |-> "generating", cards |-> <<>>]
                     /\ UNCHANGED <<flashcards, lastLoad>>
                ELSE /\ trace' = <<"askopenfilename", "set_status", "extract_text",
                                   "generate_flashcards", "display_flashcards",
                                   "set_status">>
                     /\ flashcards' = Loaded(flashcards, gen.value)
                     /\ output_box' = display_flashcards(Loaded(flashcards, gen.value))
                     /\ status' = "Flashcards generated successfully."
                     /\ lastLoad' = [loaded |-> TRUE, text |-> got.text,
                                     outcomes |-> outcomes]
    /\ UNCHANGED <<ret, theme, clipboard, files, running>>

ChooseFile ==
    \E file_path \in OpenPaths \cup {Cancelled} :
        \E outcomes \in [1..Len(Selected(extract_text(file_path).text, DefaultMaxFlashcards))
                            -> AppOutcomes] :
            LoadFile(file_path, outcomes)

ToggleTheme ==
    /\ running
    /\ args' = [fn |-> "toggle_theme"]
    /\ theme' = IF theme = LIGHT_THEME THEN DARK_THEME ELSE LIGHT_THEME
    /\ trace' = <<"apply_theme", "update_widget_colors">>
    /\ UNCHANGED <<ret, flashcards, status, output_box, clipboard, files, running,
                   lastLoad>>

CopyOutput ==
    /\ running
    /\ args' = [fn |-> "copy_output"]
    /\ IF output_box.kind # "empty"
       THEN /\ clipboard' = output_box
            /\ status' = "Output copied to clipboard."
            /\ trace' = <<"pyperclip.copy", "set_status">>
       ELSE /\ status' = "Nothing to copy."
            /\ trace' = <<"set_status">>
            /\ UNCHANGED clipboard
    /\ UNCHANGED <<ret, flashcards, theme, output_box, files, running, lastLoad>>

ExportOutput(choice, file_path, now) ==
    /\ running
    /\ args' = [fn |-> "export_output", choice |-> choice, file_path |-> file_path]
    /\ IF flashcards = <<>>
       THEN /\ trace' = <<"showinfo">>
            /\ UNCHANGED <<status, files>>
       ELSE IF ~choice.given
       THEN \* None.strip() raises AttributeError out of the handler; Tk's
            \* callback wrapper prints the traceback and the main loop goes on
            /\ trace' = <<"askstring", "raise AttributeError">>
            /\ UNCHANGED <<status, files>>
       ELSE LET format_choice == lower(strip(choice.text))
            IN  IF format_choice \notin {FormatPdf, FormatWord}
                THEN /\ trace' = <<"askstring", "showerror">>
                     /\ UNCHANGED <<status, files>>
                ELSE IF file_path = Cancelled
                THEN /\ trace' = <<"askstring", "asksaveasfilename">>
                     /\ UNCHANGED <<status, files>>
                ELSE IF format_choice = FormatPdf
                THEN /\ trace' = <<"askstring", "asksaveasfilename", "export_to_pdf",
                                   "set_status">>
                     /\ files' = <<[path |-> file_path,
                                    doc |-> export_to_pdf(flashcards, now)]>>
                     /\ status' = "Flashcards exported as PDF."
                ELSE /\ trace' = <<"askstring", "asksaveasfilename", "export_to_word",
                                   "set_status">>
                     /\ files' = <<[path |-> file_path,
                                    doc |-> export_to_word(flashcards, now)]>>
                     /\ status' = "Flashcards exported as WORD."
    /\ UNCHANGED <<ret, flashcards, theme, output_box, clipboard, running, lastLoad>>

ExportChosen ==
    \E choice \in FormatChoices, file_path \in SavePaths, now \in Clock :
        ExportOutput(choice, file_path, now)

Init ==
    /\ AppInit
    /\ args = NoArgs
    /\ ret = NoRet

Next == ChooseFile \/ ToggleTheme \/ CopyOutput \/ ExportChosen

Spec == Init /\ [][Next]_vars

----------------------------------------------------------------------------
(* The exporters, called on their own and through export_output, with the    *)
(* flashcards of one loaded document of n paragraphs, one question each;     *)
(* paragraph j, if any, differs from the others                              *)

ExportText(n, j) ==
    Join([i \in 1..n |-> IF i = j THEN Line(0, "b", DefaultMinLen)
                         ELSE Line(0, "a", DefaultMinLen)])

ExportOutcomes(n, j) ==
    [i \in 1..n |-> Returns(<<IF i = j THEN "q2" ELSE "q1">>)]

ExportInit ==
    \E n \in 0..MaxCards, j \in 0..MaxCards :
        /\ j \in {0, 1, n}
        /\ j <= n
        /\ flashcards = generate_flashcards(ExportText(n, j), DefaultMaxFlashcards,
                                            ExportOutcomes(n, j)).value
        /\ output_box = display_flashcards(flashcards)
        /\ lastLoad = [loaded |-> TRUE, text |-> ExportText(n, j),
                       outcomes |-> ExportOutcomes(n, j)]
        /\ status = "Flashcards generated successfully."
        /\ trace = <<"askopenfilename", "set_status", "extract_text",
                     "generate_flashcards", "display_flashcards", "set_status">>
        /\ theme = LIGHT_THEME
        /\ clipboard = [kind |-> "empty"]
        /\ files = <<>>
        /\ running = TRUE
        /\ args = NoArgs
        /\ ret = NoRet

CallExportToPdf ==
    /\ ret = NoRet
    /\ \E now \in Clock :
           ret' = [status |-> "returned", fn |-> "export_to_pdf",
                   doc |-> export_to_pdf(flashcards, now)]
    /\ UNCHANGED <<args, appVars>>

CallExportToWord ==
    /\ ret = NoRet
    /\ \E now \in Clock :
           ret' = [status |-> "returned", fn |-> "export_to_word",
                   doc |-> export_to_word(flashcards, now)]
    /\ UNCHANGED <<args, appVars>>

ExportNext == CallExportToPdf \/ CallExportToWord \/ ExportChosen

SpecExport == ExportInit /\ [][ExportNext]_vars

----------------------------------------------------------------------------
(* Properties of get_relevant_paragraphs, under SpecSel *)

SelReturned == args.fn = "get_relevant_paragraphs" /\ ret.status = "returned"

InBounds(p) == args.min_len <= Len(strip(p)) /\ Len(strip(p)) <= args.max_len

\* positions of the pieces of args.text that qualify
Qualifying == {k \in 1..Len(split(args.text)) : InBounds(split(args.text)[k])}

\* the j-th qualifying position, in text order
NthQualifying(j) ==
    CHOOSE k \in Qualifying : Cardinality({m \in Qualifying : m < k}) = j - 1

\* C1 as stated: for every text and every bounds, no returned paragraph has a
\* trimmed length below min_len or above max_len, and no more than limit
\* paragraphs are returned.
C1_AsStated ==
    SelReturned =>
        /\ \A i \in 1..Len(ret.value) : InBounds(ret.value[i])
        /\ Len(ret.value) <= args.limit

\* C1 amended: no returned paragraph has a trimmed length below min_len or
\* above max_len, for every bounds; no more than limit paragraphs are
\* returned when limit >= 0.
C1_BoundsAndCount ==
    SelReturned =>
        /\ \A i \in 1..Len(ret.value) : InBounds(ret.value[i])
        /\ args.limit >= 0 => Len(ret.value) <= args.limit

\* C1 witness: more pieces qualify than limit allows, one piece is out of
\* bounds, and limit paragraphs came back.
C1_Witness ==
    /\ SelReturned
    /\ args.limit >= 1
    /\ Cardinality(Qualifying) > args.limit
    /\ Len(ret.value) = args.limit
    /\ \E k \in 1..Len(split(args.text)) : k \notin Qualifying

\* the pieces are the newline-separated pieces of the text
PiecesOfText ==
    LET pieces == split(args.text)
    IN  /\ Join(pieces) = args.text
        /\ \A k \in 1..Len(pieces) : NL \notin Range(pieces[k])

\* C2 as stated: the result is the first limit qualifying paragraphs, all of
\* them when fewer than limit qualify, trimmed, in their original order.
C2_AsStated ==
    SelReturned =>
        /\ PiecesOfText
        /\ Len(ret.value) = IF Cardinality(Qualifying) < args.limit
                            THEN Cardinality(Qualifying) ELSE args.limit
        /\ \A j \in 1..Len(ret.value) :
               ret.value[j] = strip(split(args.text)[NthQualifying(j)])

\* C2 amended: for limit >= 0 the result is the first limit qualifying
\* paragraphs (all of them when fewer qualify), trimmed, in original order;
\* for limit < 0 it is the qualifying paragraphs without the last -limit.
C2_FirstLimitQualifying ==
    SelReturned =>
        /\ PiecesOfText
        /\ Len(ret.value) = IF args.limit >= 0
                            THEN Min(Cardinality(Qualifying), args.limit)
                            ELSE Max(0, Cardinality(Qualifying) + args.limit)
        /\ \A j \in 1..Len(ret.value) :
               ret.value[j] = strip(split(args.text)[NthQualifying(j)])

\* C2 witness: a piece that does not qualify precedes a qualifying one with
\* surrounding whitespace, and limit cuts the result short.
C2_Witness ==
    /\ SelReturned
    /\ args.limit >= 1
    /\ Cardinality(Qualifying) > args.limit
    /\ Len(ret.value) = args.limit
    /\ \E k \in Qualifying :
           /\ \E m \in 1..(k - 1) : m \notin Qualifying
           /\ strip(split(args.text)[k]) # split(args.text)[k]
           /\ strip(split(args.text)[k]) \in Range(ret.value)

----------------------------------------------------------------------------
(* Properties of generate_flashcards, under SpecGen *)

GenReturned == args.fn = "generate_flashcards" /\ ret.status = "returned"

GenCalled == args.fn = "generate_flashcards" /\ ret.status # "none"

\* C3: the answer of every flashcard generate_flashcards returns is one of
\* the paragraphs get_relevant_paragraphs returns for the same text with
\* limit = max_flashcards, whatever the question model does.
C3_AnswerIsSelectedParagraph ==
    GenCalled =>
        \A i \in 1..Len(ret.value) :
            /\ Len(ret.value[i]) = 2
            /\ ret.value[i][2] \in
                   Range(get_relevant_paragraphs(args.text, DefaultMinLen,
                                                 DefaultMaxLen, args.max_flashcards))

\* C3 witness: cards were returned for a text with a line that is not
\* selected and a selected line that had to be trimmed.
C3_Witness ==
    /\ GenReturned
    /\ Len(ret.value) >= 2
    /\ \E k \in 1..Len(split(args.text)) :
           split(args.text)[k] \notin Range(Selected(args.text, args.max_flashcards))
    /\ \E i \in 1..Len(ret.value) : Len(ret.value[i][2]) = DefaultMaxLen

\* the cards that came from selected paragraph j, in result order
CardsOf(j) ==
    LET Mine(i) == ret.origin[i][1] = j
        idx == SelectSeq([i \in 1..Len(ret.value) |-> i], Mine)
    IN  [n \in 1..Len(idx) |-> ret.value[idx[n]]]

\* C4: a selected paragraph whose question generation fails contributes no
\* flashcard; every other selected paragraph, before or after it, contributes
\* one flashcard per question generated for it; generate_flashcards returns
\* normally.
C4_FailureSkipsOneParagraph ==
    GenCalled =>
        /\ ret.status = "returned"
        /\ Len(ret.origin) = Len(ret.value)
        /\ \A j \in 1..Len(ret.outcomes) :
               LET para == Selected(args.text, args.max_flashcards)[j]
                   o == ret.outcomes[j]
               IN  IF o.raised
                   THEN CardsOf(j) = <<>>
                   ELSE CardsOf(j) = [k \in 1..Len(o.questions) |-> <<o.questions[k], para>>]

\* C4 witness: a paragraph failed and another one, after it, still gave cards.
C4_Witness ==
    /\ GenReturned
    /\ Len(ret.outcomes) = 2
    /\ ret.outcomes[1].raised
    /\ ~ret.outcomes[2].raised
    /\ Len(ret.value) = MaxQuestions

\* C4 witness, the other side: the failing paragraph follows one that gave cards.
C4_WitnessBefore ==
    /\ GenReturned
    /\ Len(ret.outcomes) = 2
    /\ ~ret.outcomes[1].raised
    /\ ret.outcomes[2].raised
    /\ Len(ret.value) = MaxQuestions

\* C5: the flashcards are in paragraph order, and the flashcards of one
\* paragraph are in the order in which the model returned their questions.
C5_ParagraphOrder ==
    GenCalled =>
        /\ Len(ret.origin) = Len(ret.value)
        /\ \A y \in 1..Len(ret.value) :
               /\ ret.value[y] = <<ret.outcomes[ret.origin[y][1]].questions[ret.origin[y][2]],
                                   Selected(args.text, args.max_flashcards)[ret.origin[y][1]]>>
               /\ \A x \in 1..(y - 1) :
                      \/ ret.origin[x][1] < ret.origin[y][1]
                      \/ /\ ret.origin[x][1] = ret.origin[y][1]
                         /\ ret.origin[x][2] < ret.origin[y][2]

\* C5 witness: two paragraphs each gave two cards with different questions.
C5_Witness ==
    /\ GenReturned
    /\ Len(ret.value) = 4
    /\ ret.origin[2][1] = 1
    /\ ret.origin[3][1] = 2
    /\ ret.value[1][1] # ret.value[2][1]
    /\ ret.value[1][2] # ret.value[3][2]

----------------------------------------------------------------------------
(* Properties of the handlers, under Spec *)

Supported(path) == \E ext \in {DotTxt, DotDocx, DotPdf} : endswith(path, ext)

\* the handler that ran last was load_file, on a path extract_text cannot handle
FailedLoad ==
    /\ args.fn = "load_file"
    /\ args.file_path # Cancelled
    /\ ~Supported(args.file_path) \/ ~Disk(args.file_path).readable

\* C6: when load_file is given a path with an extension other than .txt,
\* .docx or .pdf (extract_text fails with the unsupported-format error) or an
\* unreadable file, the failure is reported, generation does not run, the
\* flashcard list held before is unchanged and the process keeps running.
C6_FailedLoadKeepsFlashcards ==
    [][FailedLoad' =>
          /\ ~Supported(args'.file_path) => extract_text(args'.file_path) = Unsupported
          /\ "showerror" \in Range(trace')
          /\ status' = "Error occurred."
          /\ "generate_flashcards" \notin Range(trace')
          /\ flashcards' = flashcards
          /\ output_box' = output_box
          /\ lastLoad' = lastLoad
          /\ running']_vars

\* C6 witness: flashcards are held from an earlier load and the load that
\* ran last failed on an unsupported extension.
C6_Witness ==
    /\ FailedLoad
    /\ ~Supported(args.file_path)
    /\ Disk(args.file_path).readable
    /\ flashcards # <<>>
    /\ "showerror" \in Range(trace)

\* the handler that ran last was export_output, with flashcards to export and
\* a format selection that is not 'pdf' or 'word' once trimmed and lower-cased
InvalidFormatChosen ==
    /\ args.fn = "export_output"
    /\ flashcards # <<>>
    /\ \/ ~args.choice.given
       \/ lower(strip(args.choice.text)) \notin {FormatPdf, FormatWord}

\* C7 as stated: whenever the export format selection is not valid, dismissing
\* the dialog included, the problem is reported to the user, no file is
\* written, the flashcard list is unchanged and the process keeps running.
C7_InvalidFormatReported ==
    [][InvalidFormatChosen' =>
          /\ "showerror" \in Range(trace')
          /\ files' = files
          /\ flashcards' = flashcards
          /\ running']_vars

\* generate_flashcards on the text of the last load that extracted one
HeldFlashcards ==
    IF lastLoad.loaded
    THEN generate_flashcards(lastLoad.text, DefaultMaxFlashcards, lastLoad.outcomes).value
    ELSE <<>>

\* C10: after any sequence of handler calls the flashcard list is the result
\* of generate_flashcards on the text of the last load that extracted one,
\* empty before any; a successful load replaces the list; toggle_theme,
\* copy_output, export_output and a failed load leave it unchanged; an export
\* writes exactly that list.
C10_FlashcardsOfLastLoad ==
    /\ [](flashcards = HeldFlashcards)
    /\ [][/\ args'.fn \in {"toggle_theme", "copy_output", "export_output"}
               => flashcards' = flashcards /\ lastLoad' = lastLoad
          /\ FailedLoad' => flashcards' = flashcards /\ lastLoad' = lastLoad
          /\ (args'.fn = "load_file" /\ "display_flashcards" \in Range(trace'))
               => /\ lastLoad'.loaded
                  /\ lastLoad'.text = extract_text(args'.file_path).text
          /\ "export_to_pdf" \in Range(trace')
               => \E now \in Clock :
                      files' = <<[path |-> args'.file_path,
                                  doc |-> export_to_pdf(HeldFlashcards, now)]>>
          /\ "export_to_word" \in Range(trace')
               => \E now \in Clock :
                      files' = <<[path |-> args'.file_path,
                                  doc |-> export_to_word(HeldFlashcards, now)]>>]_vars

\* C10 witness: a second load has replaced the flashcards of the first, the
\* theme was toggled and the output copied, and the flashcards of the second
\* load were exported.
C10_Witness ==
    /\ args.fn = "export_output"
    /\ "export_to_word" \in Range(trace)
    /\ theme = DARK_THEME
    /\ clipboard.kind = "cards"
    /\ clipboard.cards # flashcards
    /\ flashcards = HeldFlashcards
    /\ flashcards # <<>>

----------------------------------------------------------------------------
(* Properties of the exporters, under SpecExport *)

ValidFormat(choice) ==
    choice.given /\ lower(strip(choice.text)) \in {FormatPdf, FormatWord}

WordTitleAndStamp(doc) ==
    /\ doc.format = "docx"
    /\ Len(doc.blocks) >= 2
    /\ doc.blocks[1] = [style |-> "Heading1", text |-> <<"Flashcards">>]
    /\ \E now \in Clock :
           doc.blocks[2] = [style |-> "Normal", text |-> <<"Generated on ", now, NL>>]

PdfTitleAndStamp(doc) ==
    /\ doc.format = "pdf"
    /\ doc.pages >= 1
    /\ Len(doc.ops) >= 2
    /\ doc.ops[1].page = 1 /\ doc.ops[1].text = <<"Flashcards">>
    /\ doc.ops[2].page = 1
    /\ \E now \in Clock : doc.ops[2].text = <<"Generated on ", now>>
    /\ doc.ops[2].y < doc.ops[1].y

\* C8 as stated: exporting zero flashcards still produces an output file with
\* the title and the timestamp, in both formats.
C8_EmptyExportWritesFile ==
    ( /\ args.fn = "export_output"
      /\ flashcards = <<>>
      /\ ValidFormat(args.choice)
      /\ args.file_path # Cancelled )
    => /\ files # <<>>
       /\ \/ WordTitleAndStamp(files[1].doc)
          \/ PdfTitleAndStamp(files[1].doc)

\* C8 amended: export_to_word and export_to_pdf, given zero flashcards, each
\* produce a document holding the title and the timestamp and nothing else;
\* export_output, holding zero flashcards, shows the "No data" notice and
\* writes no file.
C8_EmptyExport ==
    /\ ( ret.status = "returned" /\ flashcards = <<>> /\ ret.fn = "export_to_word" )
       => WordTitleAndStamp(ret.doc) /\ Len(ret.doc.blocks) = 2
    /\ ( ret.status = "returned" /\ flashcards = <<>> /\ ret.fn = "export_to_pdf" )
       => PdfTitleAndStamp(ret.doc) /\ Len(ret.doc.ops) = 2 /\ ret.doc.pages = 1
    /\ ( args.fn = "export_output" /\ flashcards = <<>> )
       => trace = <<"showinfo">> /\ files = <<>>

\* C8 witness: with zero flashcards held, export_to_pdf has returned its
\* document and export_output has shown its notice.
C8_Witness ==
    /\ flashcards = <<>>
    /\ ret.status = "returned"
    /\ ret.fn = "export_to_pdf"
    /\ args.fn = "export_output"
    /\ ValidFormat(args.choice)
    /\ args.file_path # Cancelled
    /\ trace = <<"showinfo">>

\* the PDF documents of a state
PdfDocs ==
    {files[k].doc : k \in {i \in 1..Len(files) : files[i].doc.format = "pdf"}}
    \cup (IF ret.status = "returned" /\ ret.fn = "export_to_pdf" THEN {ret.doc} ELSE {})

CardHeight == LineStep + LineStep + CardStep

\* cards that fit on a page whose first card starts at y
CardsOnPage(y) == (y - BreakBelow) \div CardHeight + 1

FirstPageCards == CardsOnPage(PageHeight - TopMargin - TitleStep - StampStep)
NextPageCards == CardsOnPage(PageHeight - TopMargin)

\* where card i is drawn, from i alone
LayoutPage(i) ==
    IF i <= FirstPageCards THEN 1
    ELSE 2 + (i - FirstPageCards - 1) \div NextPageCards

LayoutY(i) ==
    IF i <= FirstPageCards
    THEN PageHeight - TopMargin - TitleStep - StampStep - CardHeight * (i - 1)
    ELSE PageHeight - TopMargin
           - CardHeight * ((i - FirstPageCards - 1) % NextPageCards)

\* C9: in export_to_pdf a new page is started before a flashcard exactly when
\* the cursor y is below 100 there, with y reset to page height - 50; the
\* place of a flashcard depends only on how many were written before it; every
\* heading is drawn at y >= 100, with its question at y - 15 and its answer
\* at y - 30 on the same page, at 70 or above; no line is drawn below 0.
C9_PdfLayout ==
    \A doc \in PdfDocs :
        /\ Len(doc.ops) = 2 + 3 * Len(flashcards)
        /\ \A k \in 1..Len(doc.ops) : doc.ops[k].y >= 0
        /\ \A i \in 1..Len(flashcards) :
               LET head == doc.ops[3 * i]
                   ques == doc.ops[3 * i + 1]
                   answ == doc.ops[3 * i + 2]
                   before == doc.ops[3 * i - 1]
                   cursor == IF i = 1 THEN before.y - StampStep
                             ELSE before.y - CardStep
               IN  /\ head.text = <<"Flashcard #", i>>
                   /\ head.page = before.page + (IF cursor < BreakBelow THEN 1 ELSE 0)
                   /\ head.y = IF cursor < BreakBelow THEN PageHeight - TopMargin
                               ELSE cursor
                   /\ head.page = LayoutPage(i) /\ head.y = LayoutY(i)
                   /\ head.y >= BreakBelow
                   /\ ques.page = head.page /\ ques.y = head.y - LineStep
                   /\ answ.page = head.page /\ answ.y = head.y - LineStep - LineStep
                   /\ answ.y >= BreakBelow - LineStep - LineStep
                   /\ ques.text = <<"Q: ", flashcards[i][1]>>
                   /\ answ.text = <<"A: ", flashcards[i][2]>>
        /\ doc.pages = IF flashcards = <<>> THEN 1 ELSE LayoutPage(Len(flashcards))

\* C9 witness: export_output wrote a PDF whose last flashcard opens a page
\* after a page that was filled down to the threshold.
C9_Witness ==
    /\ Len(flashcards) > FirstPageCards
    /\ \E k \in 1..Len(files) :
           /\ files[k].doc.format = "pdf"
           /\ files[k].doc.pages >= 2
           /\ files[k].doc.ops[Len(files[k].doc.ops) - 2].y = PageHeight - TopMargin
           /\ files[k].doc.ops[Len(files[k].doc.ops) - 2].page = files[k].doc.pages
    /\ ret.status = "returned" /\ ret.fn = "export_to_pdf"

====
